---- MODULE Spec2Model ----
(***************************************************************************)
(* RTP payload format for AV1 (experimental): the simplified packetizer    *)
(* and the LEB128 helpers of libavformat/rtpenc_av1.c (lines 197-339), the *)
(* aggregating packetizer of the same file (lines 1-175), the depacketizer *)
(* av1_handle_packet of libavformat/rtpdec_av1.c (lines 27-131) and the    *)
(* end of stream of the libsvt_av1 wrapper in that file (lines 181-546).   *)
(*                                                                         *)
(* A packet is the sequence of its bytes, the aggregation header first.    *)
(* The payload bytes are position tags (16 * OBU index + offset for an     *)
(* access unit, 16 * packet number + offset for a packet handed to the     *)
(* receiver alone), all different, so that a lost, duplicated or reordered *)
(* byte always shows; neither the packetizer nor the depacketizer reads a  *)
(* payload byte.  Memory allocation is taken to succeed (av_new_packet,    *)
(* avio_open_dyn_buf, ff_rtp_finalize_packet).                             *)
(***************************************************************************)
EXTENDS Integers, Sequences, FiniteSets, TLC

VARIABLES
    max_payload_size,     \* s->max_payload_size
    firstPacketReceived,  \* the file-scope latch of rtpenc_av1.c
    buf0,                 \* s->buf[0], the aggregation header byte of the outbound buffer
    cur_timestamp,        \* s->cur_timestamp: the number of the access unit being sent
    au,                   \* the access unit of the last ff_rtp_send_av1 call
    enc,                  \* where a ff_rtp_send_av1 call followed step by step stands, and its locals
    sent,                 \* what that call passed to ff_rtp_send_data, in order
    sess,                 \* session totals over all calls of ff_rtp_send_data
    net,                  \* packets in flight from the sender to the receiver
    rtp_av1_ctx,          \* PayloadContext of the receiver, with the bytes of its dyn. buffer
    call,                 \* the last av1_handle_packet call: its arguments and what it returned
    received,             \* bytes of the complete packets returned since the last send, in order
    loss,                 \* what the network dropped of the access unit in flight
    stale,                \* the bytes that were in the buffer when a packet of another timestamp came
    leb,                  \* an eb_aom_uleb_encode call: its arguments and what it returned and wrote
    streams,              \* several RTPMuxContext of one process: s->buf[0] and the packets sent, per stream
    agg,                  \* the aggregating packetizer (rtpenc_av1.c lines 1-175): its context and its calls
    svt                   \* the libsvt_av1 wrapper (rtpdec_av1.c lines 146-672): its context and its calls

vars == << max_payload_size, firstPacketReceived, buf0, cur_timestamp, au, enc, sent, sess,
           net, rtp_av1_ctx, call, received, loss, stale, leb, streams, agg, svt >>

restVars == << streams, agg, svt >>

encVars == << max_payload_size, firstPacketReceived, buf0, cur_timestamp, au, enc, sent, sess, leb, restVars >>
decVars == << rtp_av1_ctx, call, stale >>

----------------------------------------------------------------------------
(* Bounds of the model *)

MaxPayloadSize == 3   \* max_payload_size ranges over 2..MaxPayloadSize
MaxObuLen      == 4   \* an OBU holds 1..MaxObuLen bytes
MaxObus        == 2   \* an access unit holds 1..MaxObus OBUs after its temporal delimiter
MaxAUs         == 2   \* access units sent in one session
MaxDrops       == 2   \* packets the network drops of one access unit
NumTimestamps  == 2   \* timestamps of the packets handed to the receiver alone
MaxPktLen      == 3   \* length of a packet handed to the receiver alone
MaxBufLen      == 3   \* bytes the receiver buffers before the model stops feeding it
MaxCalls       == 3   \* packets handed to the receiver alone
MaxPackets     == 4   \* packets of a call followed step by step, before the model stops following it
MaxScenarioLen == 5   \* the OBU of the scenario of large packets holds up to 600 * MaxScenarioLen bytes
MaxLebValue    == 130 \* eb_aom_uleb_encode is given 0..MaxLebValue, and each 2^n and 2^n - 1 below 2^64
MaxAvailable   == 9   \* eb_aom_uleb_encode is given a capacity of 0..MaxAvailable bytes
NumStreams     == 2   \* streams packetized in one process
MaxAggPayload  == 6   \* max_payload_size of the aggregating packetizer ranges over 2..MaxAggPayload
MaxSvtCalls    == 6   \* eb_send_frame and eb_receive_packet calls on one encoder
MaxStreamCalls == 3   \* ff_rtp_send_av1 calls over all the streams of the process

----------------------------------------------------------------------------
(* Program constants *)

AGGRE_HEADER_SIZE == 1
AV1_RTP_FLAG_Z    == 128
AV1_RTP_FLAG_Y    == 64
AV1_RTP_FLAG_N    == 8
AV1_RTP_FLAG_W1   == 16
AV1_RTP_FLAG_NONE == 0
AV1_OBU_TEMPORAL_DELIMITER == 2
AV1_OBU_FRAME     == 6
DEC_AV1_RTP_FLAG_N == 4       \* AV1_RTP_FLAG_N as rtpdec_av1.c defines it
OBU_ELE_NUM_MASK  == 48       \* 0x30, the W field
kMaximumLeb128Size  == 8
AVERROR_EAGAIN      == -11
AVERROR_INVALIDDATA == -1094995529
AVERROR_EOF == -541478725            \* FFERRTAG('E','O','F',' ')

\* EOS_STATUS, rtpdec_av1.c lines 181-185
EOS_NOT_REACHED == 0
EOS_SENT == 1
EOS_RECEIVED == 2

----------------------------------------------------------------------------
(* Byte arithmetic *)

RECURSIVE BitOr(_, _)
BitOr(a, b) ==
    IF a = 0 THEN b
    ELSE IF b = 0 THEN a
    ELSE (IF a % 2 = 1 \/ b % 2 = 1 THEN 1 ELSE 0) + 2 * BitOr(a \div 2, b \div 2)

RECURSIVE BitAnd(_, _)
BitAnd(a, b) ==
    IF a = 0 \/ b = 0 THEN 0
    ELSE (IF a % 2 = 1 /\ b % 2 = 1 THEN 1 ELSE 0) + 2 * BitAnd(a \div 2, b \div 2)

Range(s) == { s[i] : i \in 1..Len(s) }

RECURSIVE Flatten(_)
Flatten(ss) == IF ss = << >> THEN << >> ELSE Head(ss) \o Flatten(Tail(ss))

----------------------------------------------------------------------------
(* uint64_t arithmetic.  A value is the sequence of its 64 bits, the least   *)
(* significant first.                                                        *)

Word(n) == [i \in 1..64 |-> IF i <= 30 THEN (n \div 2^(i - 1)) % 2 ELSE 0]

\* 2^n - 1 and 2^n
Ones(n)   == [i \in 1..64 |-> IF i <= n THEN 1 ELSE 0]
OneBit(n) == [i \in 1..64 |-> IF i = n + 1 THEN 1 ELSE 0]

\* value >>= 7
ShiftRight_by8(v) == [i \in 1..64 |-> IF i + 8 <= 64 THEN v[i + 8] ELSE 0]

ShiftRight7(v) == [i \in 1..64 |-> IF i + 7 <= 64 THEN v[i + 7] ELSE 0]

\* value & 0x7f, as a byte
Low7(v) == v[1] + 2 * v[2] + 4 * v[3] + 8 * v[4] + 16 * v[5] + 32 * v[6] + 64 * v[7]

\* value != 0
NonZero(v) == \E i \in 1..64 : v[i] = 1

\* a > b
GreaterThan_orEqual(a, b) ==
    a = b \/ \E i \in 1..64 : a[i] > b[i] /\ \A j \in (i + 1)..64 : a[j] = b[j]

GreaterThan(a, b) ==
    \E i \in 1..64 : a[i] > b[i] /\ \A j \in (i + 1)..64 : a[j] = b[j]

ShiftLeft(v, n) == [i \in 1..64 |-> IF i - n >= 1 THEN v[i - n] ELSE 0]

Or64(a, b) == [i \in 1..64 |-> IF a[i] = 1 \/ b[i] = 1 THEN 1 ELSE 0]

----------------------------------------------------------------------------
(* The LEB128 helpers, rtpenc_av1.c lines 201-240 *)

kMaximumLeb128Value == Ones(56)     \* 0xFFFFFFFFFFFFFF, 2 ^ 56 - 1

\* do { ++size; } while ((value >>= 7) != 0);
RECURSIVE uleb_size_loop(_, _)
uleb_size_loop(value, size) ==
    IF NonZero(ShiftRight7(value))
    THEN uleb_size_loop(ShiftRight7(value), size + 1)
    ELSE size + 1

eb_aom_uleb_size_in_bytes(value) == uleb_size_loop(value, 0)

\* The for loop of eb_aom_uleb_encode, lines 229-236: the bytes written
RECURSIVE uleb_encode_loop(_, _, _, _)
uleb_encode_loop(value, i, leb_size, coded) ==
    IF i < leb_size
    THEN LET rest == ShiftRight7(value)
             byte == IF NonZero(rest) THEN BitOr(Low7(value), 128) ELSE Low7(value)
         IN  uleb_encode_loop(rest, i + 1, leb_size, Append(coded, byte))
    ELSE coded

\* eb_aom_uleb_encode(value, available, coded_value, coded_size), lines 221-240.
\* coded_value and coded_size say that the pointers are not NULL; the result is
\* [ret, coded, size]: what is returned, the bytes written at coded_value and
\* what is written at coded_size, -1 standing for nothing written.
eb_aom_uleb_encode(value, available, coded_value, coded_size) ==
    LET leb_size == eb_aom_uleb_size_in_bytes(value)
    IN  IF \/ GreaterThan(value, kMaximumLeb128Value)
           \/ leb_size > kMaximumLeb128Size
           \/ leb_size > available
           \/ ~coded_value
           \/ ~coded_size
        THEN [ret |-> -1, coded |-> << >>, size |-> -1]
        ELSE [ret |-> 0, coded |-> uleb_encode_loop(value, 0, leb_size, << >>), size |-> leb_size]

\* Decoding as the format defines it: read bytes while the continuation bit is
\* set and accumulate the 7-bit groups, the least significant group first; no
\* result when 8 bytes did not end the value or the bytes end before it does.
RECURSIVE uleb_decode_loop(_, _, _)
uleb_decode_loop(bytes, i, acc) ==
    IF i > Len(bytes) \/ i > kMaximumLeb128Size
    THEN [ok |-> FALSE, value |-> acc]
    ELSE LET a == Or64(acc, ShiftLeft(Word(bytes[i] % 128), 7 * (i - 1)))
         IN  IF bytes[i] >= 128
             THEN uleb_decode_loop(bytes, i + 1, a)
             ELSE [ok |-> TRUE, value |-> a]

uleb_decode(bytes) == uleb_decode_loop(bytes, 1, Word(0))

----------------------------------------------------------------------------
(* Access units: an optional leading temporal delimiter, then 1..MaxObus   *)
(* OBUs.  An OBU is [type, bytes].                                         *)

ObuBytes(i, n) == [j \in 1..n |-> 16 * i + j]

TemporalDelimiter == [type |-> AV1_OBU_TEMPORAL_DELIMITER, bytes |-> << 18, 0 >>]

MkAU(td, lens) ==
    (IF td THEN << TemporalDelimiter >> ELSE << >>)
    \o [i \in 1..Len(lens) |-> [type |-> AV1_OBU_FRAME, bytes |-> ObuBytes(i, lens[i])]]

LenSeqs == UNION { [1..n -> 1..MaxObuLen] : n \in 1..MaxObus }

AccessUnits == { MkAU(td, lens) : td \in BOOLEAN, lens \in LenSeqs }

AuBytes(obus) == Flatten([i \in 1..Len(obus) |-> obus[i].bytes])

\* The OBUs the packetizer has to carry: all but the leading temporal delimiter
Carried(obus) ==
    IF obus # << >> /\ Head(obus).type = AV1_OBU_TEMPORAL_DELIMITER THEN Tail(obus) ELSE obus

----------------------------------------------------------------------------
(* The packetizer, rtpenc_av1.c lines 252-339 *)

\* The OBU boundary parser of libavcodec/av1_parse.h: the length and the type
\* of the OBU at the start of the buffer.
parse_obu_header(obus) == [len |-> Len(Head(obus).bytes), type |-> Head(obus).type]

update_aggregate_hdr_noclear(hdr, flag, clear) == BitOr(hdr, flag)

update_aggregate_hdr_assign(hdr, flag, clear) == flag

update_aggregate_hdr_and(hdr, flag, clear) ==
    BitAnd(IF clear # 0 THEN 0 ELSE hdr, flag)

update_aggregate_hdr(hdr, flag, clear) ==
    BitOr(IF clear # 0 THEN 0 ELSE hdr, flag)

\* ff_rtp_send_data(s1, s->buf, len, last): s->buf[0] followed by the payload copied behind it
ff_rtp_send_data(hdr, payload, last) == [data |-> << hdr >> \o payload, last |-> last]

\* The test of the while loop of obu_send, line 295: the rest does not fit in one packet
more_to_split_noheader(size, mps) == size > mps

more_to_split(size, mps) == size + AGGRE_HEADER_SIZE > mps

\* The payload bytes one pass of that loop sends and steps over, lines 303-306
fragment_size_none(mps) == 0

fragment_size_full(mps) == mps

fragment_size(mps) == mps - AGGRE_HEADER_SIZE

\* The advance of buf after a fragment was sent, line 305
advance_one_more(buf, n) == SubSeq(buf, n + 2, Len(buf))

advance(buf, n) == SubSeq(buf, n + 1, Len(buf))

\* One pass of the while loop of obu_send, lines 296-306: the header byte after
\* it, the unsent rest of the OBU and the packet sent
obu_send_pass(hdr, first, buf, mps) ==
    LET h == IF first = 1
             THEN update_aggregate_hdr(hdr, BitOr(AV1_RTP_FLAG_Y, AV1_RTP_FLAG_W1), 1)
             ELSE update_aggregate_hdr(hdr, AV1_RTP_FLAG_Z, 0)
        n == fragment_size(mps)
    IN  [hdr |-> h, buf |-> advance(buf, n), pkt |-> ff_rtp_send_data(h, SubSeq(buf, 1, n), 0)]

\* The while loop of obu_send, lines 295-307.  buf is the unsent rest of the OBU.
RECURSIVE obu_send_loop(_, _, _, _, _)
obu_send_loop(hdr, first, buf, mps, out) ==
    IF more_to_split(Len(buf), mps)
    THEN LET r == obu_send_pass(hdr, first, buf, mps)
         IN  obu_send_loop(r.hdr, 0, r.buf, mps, Append(out, r.pkt))
    ELSE [hdr |-> hdr, buf |-> buf, out |-> out]

\* Lines 308-310: the rest of the OBU, sent after the loop
obu_send_tail(hdr, buf, last) ==
    LET h == update_aggregate_hdr(hdr, AV1_RTP_FLAG_Z, 1)
    IN  [hdr |-> h, pkt |-> ff_rtp_send_data(h, buf, last)]

\* The test of line 284: the OBU and the aggregation header fit in one packet
fits_one_packet_noheader(size, mps) == size <= mps

fits_one_packet(size, mps) == size + AGGRE_HEADER_SIZE <= mps

\* obu_send(s1, buf, size, last), lines 271-313.  buf holds the bytes from the
\* start of the OBU to the end of the access unit; st is [hdr, fpr], the header
\* byte of the outbound buffer and the latch.
obu_send(st, buf, size, last, mps) ==
    IF size <= 0
    THEN [hdr |-> st.hdr, fpr |-> st.fpr, out |-> << >>]
    ELSE IF fits_one_packet(size, mps)
    THEN LET h0 == update_aggregate_hdr(st.hdr, AV1_RTP_FLAG_NONE, 1)
             h1 == IF st.fpr = 0 THEN update_aggregate_hdr(h0, AV1_RTP_FLAG_N, 1) ELSE h0
         IN  [hdr |-> h1, fpr |-> IF st.fpr = 0 THEN 1 ELSE st.fpr,
              out |-> << ff_rtp_send_data(h1, SubSeq(buf, 1, size), last) >>]
    ELSE LET r == obu_send_loop(st.hdr, 1, SubSeq(buf, 1, size), mps, << >>)
             t == obu_send_tail(r.hdr, r.buf, last)
         IN  [hdr |-> t.hdr, fpr |-> st.fpr, out |-> Append(r.out, t.pkt)]

\* flush_buffered(s1, last), lines 261-268: buf_ptr is the offset of s->buf_ptr in s->buf
flush_buffered(hdr, buf_ptr, buffered, last) ==
    IF buf_ptr # 0 THEN << ff_rtp_send_data(hdr, buffered, last) >> ELSE << >>

\* Each packet of one obu_send call, marked with the number of that call
TagObu(pkts, k) == [i \in 1..Len(pkts) |-> [data |-> pkts[i].data, last |-> pkts[i].last, obu |-> k]]

\* The last argument of the obu_send call of line 334: size == len
is_last_obu_always(size, len) == 1

is_last_obu(size, len) == IF size = len THEN 1 ELSE 0

\* The while loop of ff_rtp_send_av1, lines 325-337.  obus is the unparsed rest
\* of the access unit, k the number of obu_send calls made so far.
RECURSIVE ff_rtp_send_av1_loop(_, _, _, _, _)
ff_rtp_send_av1_loop(st, obus, k, mps, out) ==
    IF Len(AuBytes(obus)) > 0
    THEN LET size  == Len(AuBytes(obus))
             p1    == parse_obu_header(obus)
             skip  == p1.type = AV1_OBU_TEMPORAL_DELIMITER
             obus1 == IF skip THEN Tail(obus) ELSE obus
             size1 == IF skip THEN size - p1.len ELSE size
             len   == IF skip THEN parse_obu_header(obus1).len ELSE p1.len
             r     == obu_send(st, AuBytes(obus1), len, is_last_obu(size1, len), mps)
         IN  ff_rtp_send_av1_loop([hdr |-> r.hdr, fpr |-> r.fpr], Tail(obus1), k + 1, mps,
                                  out \o TagObu(r.out, k + 1))
    ELSE [hdr |-> st.hdr, fpr |-> st.fpr, out |-> out]

\* ff_rtp_send_av1(s1, buf, size), lines 315-339: s->buf_ptr = s->buf, the loop, the flush
ff_rtp_send_av1(st, obus, mps) ==
    LET r == ff_rtp_send_av1_loop(st, obus, 0, mps, << >>)
    IN  [hdr |-> r.hdr, fpr |-> r.fpr,
         out |-> r.out \o TagObu(flush_buffered(r.hdr, 0, << >>, 1), 0)]

----------------------------------------------------------------------------
(* The depacketizer, rtpdec_av1.c lines 33-131.  The context is               *)
(* [buf, data, src, timestamp, live]: buf says that rtp_av1_ctx->buf is not   *)
(* NULL, data are the bytes written to the dyn. buffer, src the timestamp of  *)
(* the packet each of those bytes came in, live the number of dyn. buffers    *)
(* opened and not yet freed or finalized.                                     *)

NoCtx == [buf |-> FALSE, data |-> << >>, src |-> << >>, timestamp |-> 0, live |-> 0]

ffio_free_dyn_buf(ctx) ==
    IF ctx.buf
    THEN [ctx EXCEPT !.buf = FALSE, !.data = << >>, !.src = << >>, !.live = @ - 1]
    ELSE ctx

avio_open_dyn_buf(ctx) ==
    [ctx EXCEPT !.buf = TRUE, !.data = << >>, !.src = << >>, !.live = @ + 1]

avio_write(ctx, bytes, timestamp) ==
    [ctx EXCEPT !.data = @ \o bytes, !.src = @ \o [i \in 1..Len(bytes) |-> timestamp]]

\* ff_rtp_finalize_packet(pkt, &buf, index): the packet takes the buffer's bytes, buf is NULL
ff_rtp_finalize_packet(ctx) ==
    [ctx |-> [ctx EXCEPT !.buf = FALSE, !.data = << >>, !.src = << >>, !.live = @ - 1],
     pkt |-> ctx.data]

\* Lines 56-57: drop the data of previous packets when the timestamp changes
drop_previous_never(ctx, timestamp) == ctx

drop_previous_always(ctx, timestamp) == ffio_free_dyn_buf(ctx)

drop_previous_same(ctx, timestamp) ==
    IF ctx.buf /\ ctx.timestamp = timestamp THEN ffio_free_dyn_buf(ctx) ELSE ctx

drop_previous(ctx, timestamp) ==
    IF ctx.buf /\ ctx.timestamp # timestamp THEN ffio_free_dyn_buf(ctx) ELSE ctx

\* Line 60: the sanity check for the size of the input packet
too_short_header_only(len) == len < AGGRE_HEADER_SIZE

too_short(len) == len < AGGRE_HEADER_SIZE + 1

\* buf + 1, len - AGGRE_HEADER_SIZE (lines 98 and 119): the packet without its header
payload_of_with_header(buf, len) == SubSeq(buf, 1, len)

payload_of_short(buf, len) == SubSeq(buf, 1 + AGGRE_HEADER_SIZE, len - AGGRE_HEADER_SIZE)

payload_of(buf, len) == SubSeq(buf, 1 + AGGRE_HEADER_SIZE, len)

\* Lines 104-116: with no buffer open, a first fragment opens one
start_buffering_no_timestamp(ctx, timestamp) ==
    IF ~ctx.buf THEN avio_open_dyn_buf(ctx) ELSE ctx

start_buffering(ctx, timestamp) ==
    IF ~ctx.buf THEN [avio_open_dyn_buf(ctx) EXCEPT !.timestamp = timestamp] ELSE ctx

\* av1_handle_packet(ctx, rtp_av1_ctx, st, pkt, timestamp, buf, len, seq, flags), lines 47-131
av1_handle_packet(ctx, timestamp, buf, len) ==
    LET c1 == drop_previous(ctx, timestamp)
    IN  IF too_short(len)
        THEN [ctx |-> c1, res |-> AVERROR_INVALIDDATA, pkt |-> << >>, first_packet |-> 0]
        ELSE
        LET frag_Z         == IF BitAnd(buf[1], AV1_RTP_FLAG_Z) # 0 THEN 1 ELSE 0
            frag_Y         == IF BitAnd(buf[1], AV1_RTP_FLAG_Y) # 0 THEN 1 ELSE 0
            obu_ele_num    == BitAnd(buf[1], OBU_ELE_NUM_MASK) \div 16
            first_packet   == IF BitAnd(buf[1], DEC_AV1_RTP_FLAG_N) # 0 THEN 1 ELSE 0
            first_fragment == frag_Z = 0 /\ frag_Y = 1
            last_fragment  == frag_Z = 1 /\ frag_Y = 0
        IN  IF frag_Z = 0 /\ frag_Y = 0 /\ obu_ele_num = 0
            THEN [ctx |-> c1, res |-> 0, pkt |-> payload_of(buf, len),
                  first_packet |-> first_packet]
            ELSE IF ~c1.buf /\ ~first_fragment
            THEN [ctx |-> c1, res |-> AVERROR_EAGAIN, pkt |-> << >>,
                  first_packet |-> first_packet]
            ELSE
            LET c2 == start_buffering(c1, timestamp)
                c3 == avio_write(c2, payload_of(buf, len), timestamp)
            IN  IF ~last_fragment
                THEN [ctx |-> c3, res |-> AVERROR_EAGAIN, pkt |-> << >>,
                      first_packet |-> first_packet]
                ELSE [ctx |-> ff_rtp_finalize_packet(c3).ctx, res |-> 0,
                      pkt |-> ff_rtp_finalize_packet(c3).pkt, first_packet |-> first_packet]

----------------------------------------------------------------------------
(* Header bits of a packet *)

HasFlag(pkt, flag) == BitAnd(pkt.data[1], flag) # 0

IsInterior(pkt) == HasFlag(pkt, AV1_RTP_FLAG_Z) /\ HasFlag(pkt, AV1_RTP_FLAG_Y)

\* What the network did to the access unit in flight: interior and other count
\* the dropped interior fragments and the other dropped packets; holeOpen says
\* that an interior fragment of the OBU now in transit was dropped, holeTs is
\* the timestamp of that OBU until a packet of another timestamp is delivered;
\* after says that the last packet delivered was a later fragment of that OBU.
NoLoss == [interior |-> 0, other |-> 0, holeTs |-> 0, holeOpen |-> FALSE, after |-> FALSE]

NoCall == [len |-> -1, buf |-> << >>, timestamp |-> 0, seq |-> 0, was |-> NoCtx,
           res |-> 0, pkt |-> << >>, first_packet |-> 0]

\* No ff_rtp_send_av1 call is being followed step by step
NoRun == [pc |-> "idle", obus |-> << >>, size |-> 0, len |-> 0, k |-> 0,
          buf |-> << >>, first |-> 0, last |-> 0]

\* No eb_aom_uleb_encode call
NoLeb == [pc |-> "idle", value |-> Word(0), available |-> 0, coded_value |-> FALSE,
          coded_size |-> FALSE, ret |-> 0, coded |-> << >>, size |-> -1]

\* Session totals: started says that a packet was passed to ff_rtp_send_data,
\* withN counts the packets sent with the N bit, firstN says that the first
\* packet of the session had it.
NoSess == [started |-> FALSE, withN |-> 0, firstN |-> FALSE]

CountN(pkts) == Cardinality({ i \in 1..Len(pkts) : HasFlag(pkts[i], AV1_RTP_FLAG_N) })

\* No call of the aggregating packetizer, none of the libsvt_av1 wrapper
NoAgg == [pc |-> "idle", buf |-> << 0 >>, buf_ptr |-> 0, buffered_nals |-> 0,
          au |-> << >>, obus |-> << >>, k |-> 0, out |-> << >>]

\* SvtContext after eb_enc_init (line 410), the encoder's queue empty
NoSvt == [eos_flag |-> EOS_NOT_REACHED, queue |-> << >>, calls |-> 0, op |-> "init",
          ret |-> 0, queried |-> FALSE, seen |-> FALSE]

----------------------------------------------------------------------------
(* A session of the packetizer alone *)

InitEnc ==
    /\ max_payload_size \in 2..MaxPayloadSize
    /\ firstPacketReceived = 0
    /\ buf0 \in {0, 255}          \* s->buf is allocated, not initialised
    /\ cur_timestamp = 0
    /\ au = << >>
    /\ enc = NoRun
    /\ sent = << >>
    /\ sess = NoSess
    /\ net = << >>
    /\ rtp_av1_ctx = NoCtx
    /\ call = NoCall
    /\ received = << >>
    /\ loss = NoLoss
    /\ stale = {}
    /\ streams = << >>
    /\ agg = NoAgg
    /\ svt = NoSvt
    /\ leb = NoLeb

\* The session totals after the packets out were passed to ff_rtp_send_data
Account(out) ==
    [started |-> sess.started \/ out # << >>,
     withN   |-> sess.withN + CountN(out),
     firstN  |-> IF ~sess.started /\ out # << >>
                 THEN HasFlag(out[1], AV1_RTP_FLAG_N)
                 ELSE sess.firstN]

\* One call of ff_rtp_send_av1 on access unit a, as far as the sender's state goes
Packetize(a) ==
    \E r \in { ff_rtp_send_av1([hdr |-> buf0, fpr |-> firstPacketReceived], a, max_payload_size) } :
        /\ cur_timestamp' = cur_timestamp + 1
        /\ au' = a
        /\ sent' = r.out
        /\ buf0' = r.hdr
        /\ firstPacketReceived' = r.fpr
        /\ sess' = Account(r.out)
        /\ UNCHANGED << max_payload_size, enc, leb, restVars >>

SendAccessUnit == \E a \in AccessUnits :
    /\ cur_timestamp < MaxAUs
    /\ Packetize(a)
    /\ UNCHANGED << net, rtp_av1_ctx, call, received, loss, stale >>

NextEnc == SendAccessUnit

SpecEnc == InitEnc /\ [][NextEnc]_vars

----------------------------------------------------------------------------
(* A session of the packetizer at max_payload_size = 1200, on access units of *)
(* one OBU of 598, 599, 600, 1198, 1199, 1200, ... bytes                      *)

ScenarioUnits ==
    { MkAU(td, << 600 * k - d >>) : td \in BOOLEAN, k \in 1..MaxScenarioLen, d \in 0..2 }

InitScn ==
    /\ max_payload_size = 1200
    /\ firstPacketReceived \in {0, 1}
    /\ buf0 \in {0, 255}
    /\ cur_timestamp = 0
    /\ au = << >>
    /\ enc = NoRun
    /\ sent = << >>
    /\ sess = NoSess
    /\ net = << >>
    /\ rtp_av1_ctx = NoCtx
    /\ call = NoCall
    /\ received = << >>
    /\ loss = NoLoss
    /\ stale = {}
    /\ streams = << >>
    /\ agg = NoAgg
    /\ svt = NoSvt
    /\ leb = NoLeb

SendScenario == \E a \in ScenarioUnits :
    /\ cur_timestamp < MaxAUs
    /\ Packetize(a)
    /\ UNCHANGED << net, rtp_av1_ctx, call, received, loss, stale >>

NextScn == SendScenario

SpecScn == InitScn /\ [][NextScn]_vars

----------------------------------------------------------------------------
(* One call of eb_aom_uleb_encode, on a small value or on 2^n or 2^n - 1, with *)
(* any capacity and with or without the places to write to                    *)

LebValues ==
    { Word(n) : n \in 0..MaxLebValue } \cup { Ones(n) : n \in 1..64 } \cup { OneBit(n) : n \in 0..63 }

InitLeb ==
    /\ max_payload_size = 2
    /\ firstPacketReceived = 0
    /\ buf0 = 0
    /\ cur_timestamp = 0
    /\ au = << >>
    /\ enc = NoRun
    /\ sent = << >>
    /\ sess = NoSess
    /\ net = << >>
    /\ rtp_av1_ctx = NoCtx
    /\ call = NoCall
    /\ received = << >>
    /\ loss = NoLoss
    /\ stale = {}
    /\ streams = << >>
    /\ agg = NoAgg
    /\ svt = NoSvt
    /\ \E v \in LebValues, a \in 0..MaxAvailable, pv, ps \in BOOLEAN :
           leb = [NoLeb EXCEPT !.pc = "call", !.value = v, !.available = a,
                               !.coded_value = pv, !.coded_size = ps]

Encode ==
    /\ leb.pc = "call"
    /\ \E r \in { eb_aom_uleb_encode(leb.value, leb.available, leb.coded_value, leb.coded_size) } :
           leb' = [leb EXCEPT !.pc = "done", !.ret = r.ret, !.coded = r.coded, !.size = r.size]
    /\ UNCHANGED << max_payload_size, firstPacketReceived, buf0, cur_timestamp, au, enc, sent, sess,
                    net, decVars, received, loss, restVars >>

NextLeb == Encode

SpecLeb == InitLeb /\ [][NextLeb]_vars

----------------------------------------------------------------------------
(* Several streams packetized in one process.  Each stream has its own       *)
(* RTPMuxContext, so its own s->buf; firstPacketReceived is a static of the   *)
(* file and there is one for all of them.  The calls of ff_rtp_send_av1 do    *)
(* not overlap in time; any stream may make the next one.  A stream is        *)
(* [buf0, calls, started, withN, firstN, consumed]: its s->buf[0], the calls  *)
(* made on it, whether it sent a packet, how many of its packets had N,       *)
(* whether its first packet had N, and whether a call on it set the latch.    *)

NoStream == [buf0 |-> 0, calls |-> 0, started |-> FALSE, withN |-> 0,
             firstN |-> FALSE, consumed |-> FALSE]

\* Access units of one or two OBUs, each of which fits in one packet or not
StreamUnits ==
    { MkAU(FALSE, << n >>) : n \in 1..MaxPayloadSize }
    \cup { MkAU(FALSE, << n, m >>) : n \in 1..MaxPayloadSize, m \in 1..MaxPayloadSize }

RECURSIVE StreamCalls(_, _)
StreamCalls(ss, n) == IF n = 0 THEN 0 ELSE ss[n].calls + StreamCalls(ss, n - 1)

RECURSIVE StreamsWithN(_, _)
StreamsWithN(ss, n) == IF n = 0 THEN 0 ELSE ss[n].withN + StreamsWithN(ss, n - 1)

InitStreams ==
    /\ max_payload_size \in 2..MaxPayloadSize
    /\ firstPacketReceived = 0
    /\ buf0 = 0
    /\ cur_timestamp = 0
    /\ au = << >>
    /\ enc = NoRun
    /\ sent = << >>
    /\ sess = NoSess
    /\ net = << >>
    /\ rtp_av1_ctx = NoCtx
    /\ call = NoCall
    /\ received = << >>
    /\ loss = NoLoss
    /\ stale = {}
    /\ leb = NoLeb
    /\ \E b \in [1..NumStreams -> {0, 255}] :      \* s->buf is allocated, not initialised
           streams = [i \in 1..NumStreams |-> [NoStream EXCEPT !.buf0 = b[i]]]
    /\ agg = NoAgg
    /\ svt = NoSvt

\* One call of ff_rtp_send_av1 on stream i
SendOnStream == \E i \in 1..NumStreams, a \in StreamUnits :
    /\ StreamCalls(streams, NumStreams) < MaxStreamCalls
    /\ \E r \in { ff_rtp_send_av1([hdr |-> streams[i].buf0, fpr |-> firstPacketReceived],
                                   a, max_payload_size) } :
           /\ firstPacketReceived' = r.fpr
           /\ streams' = [streams EXCEPT ![i] =
                  [buf0     |-> r.hdr,
                   calls    |-> @.calls + 1,
                   started  |-> @.started \/ r.out # << >>,
                   withN    |-> @.withN + CountN(r.out),
                   firstN   |-> IF ~@.started /\ r.out # << >>
                                THEN HasFlag(r.out[1], AV1_RTP_FLAG_N)
                                ELSE @.firstN,
                   consumed |-> @.consumed \/ (firstPacketReceived = 0 /\ r.fpr = 1)]]
    /\ UNCHANGED << max_payload_size, buf0, cur_timestamp, au, enc, sent, sess,
                    net, decVars, received, loss, leb, agg, svt >>

NextStreams == SendOnStream

SpecStreams == InitStreams /\ [][NextStreams]_vars

----------------------------------------------------------------------------
(* The aggregating packetizer, rtpenc_av1.c lines 1-175.  agg is              *)
(* [pc, buf, buf_ptr, buffered_nals, au, obus, k, out]: buf are the bytes of  *)
(* s->buf written so far, the aggregation header first, buf_ptr the offset of *)
(* s->buf_ptr in s->buf, au the access unit of the call, obus its unparsed    *)
(* rest, k the number of obu_send calls made, out the packets passed to       *)
(* ff_rtp_send_data.  A byte of s->buf never written reads as 255.            *)

AGG_AV1_RTP_FLAG_N == 4
SIZEOF_INT == 4

\* memcpy(mem + off, bytes, Len(bytes))
Store(mem, off, bytes) ==
    LET n == IF off + Len(bytes) > Len(mem) THEN off + Len(bytes) ELSE Len(mem)
    IN  [i \in 1..n |-> IF i > off /\ i <= off + Len(bytes) THEN bytes[i - off]
                        ELSE IF i <= Len(mem) THEN mem[i] ELSE 255]

\* The n bytes ff_rtp_send_data(s1, s->buf, n, last) reads
Fetch(mem, n) == [i \in 1..n |-> IF i <= Len(mem) THEN mem[i] ELSE 255]

\* update_aggregate_hdr(s1, flag, clear), lines 56-66
agg_update_aggregate_hdr(mem, nals, flag, clear) ==
    LET h == BitAnd(IF clear # 0 THEN 0 ELSE mem[1], flag)
    IN  [mem EXCEPT ![1] = IF nals > 3 THEN BitAnd(h, OBU_ELE_NUM_MASK) ELSE h]

\* flush_buffered(s1, last), lines 68-76: the context after it and the packets sent
agg_flush_buffered(c, last) ==
    [c   |-> [c EXCEPT !.buf_ptr = 0, !.buffered_nals = 0],
     out |-> IF c.buf_ptr # 0
             THEN << ff_rtp_send_data(c.buf[1], Tail(Fetch(c.buf, c.buf_ptr)), last) >>
             ELSE << >>]

\* Line 111-117: the bytes of the OBU that go into the partly filled packet
size_to_fill(mps, buffered_size) ==
    LET n == mps - buffered_size - AGGRE_HEADER_SIZE
    IN  IF n > 127 THEN n - 2 ELSE n - 1

\* Lines 110-127: the OBU does not fit and a packet is partly filled.  The
\* context after the flush, the unsent rest of the OBU and the packet sent.
agg_fill(c, buf, size, mps) ==
    LET n   == size_to_fill(mps, c.buf_ptr)
        e   == eb_aom_uleb_encode(Word(n), SIZEOF_INT, TRUE, TRUE)
        m1  == agg_update_aggregate_hdr(c.buf, c.buffered_nals, AV1_RTP_FLAG_Y, 0)
        m2  == Store(m1, c.buf_ptr, e.coded)
        m3  == Store(m2, c.buf_ptr + e.size, SubSeq(buf, 1, n))
        f   == agg_flush_buffered([c EXCEPT !.buf = m3], 0)
    IN  [c |-> f.c, buf |-> SubSeq(buf, n + 1, Len(buf)), size |-> size - n, out |-> f.out]

\* The while loop of lines 130-136
RECURSIVE agg_split_loop(_, _, _, _, _)
agg_split_loop(c, buf, size, mps, out) ==
    IF size + AGGRE_HEADER_SIZE > mps
    THEN LET m1 == agg_update_aggregate_hdr(c.buf, c.buffered_nals,
                       BitOr(AV1_RTP_FLAG_Z, BitOr(AV1_RTP_FLAG_Y, AV1_RTP_FLAG_W1)), 1)
             m2 == Store(m1, AGGRE_HEADER_SIZE, SubSeq(buf, 1, mps - AGGRE_HEADER_SIZE))
         IN  agg_split_loop([c EXCEPT !.buf = m2],
                            SubSeq(buf, mps - AGGRE_HEADER_SIZE + 1, Len(buf)),
                            size - (mps - AGGRE_HEADER_SIZE), mps,
                            Append(out, ff_rtp_send_data(m2[1], Tail(Fetch(m2, mps)), 0)))
    ELSE [c |-> c, buf |-> buf, size |-> size, out |-> out]

\* Lines 137-142: the rest of the OBU behind its LEB128 size, sent at once
agg_send_rest(c, buf, size, last) ==
    LET m1 == agg_update_aggregate_hdr(c.buf, c.buffered_nals, AV1_RTP_FLAG_Z, 1)
        e  == eb_aom_uleb_encode(Word(size), SIZEOF_INT, TRUE, TRUE)
        header_size == e.size + AGGRE_HEADER_SIZE
        m2 == Store(m1, AGGRE_HEADER_SIZE, e.coded)
        m3 == Store(m2, header_size, SubSeq(buf, 1, size))
    IN  [c   |-> [c EXCEPT !.buf = m3],
         out |-> << ff_rtp_send_data(m3[1], Tail(Fetch(m3, size + header_size)), last) >>]

\* obu_send(s1, buf, size, last), lines 78-145, for size >= 1.  ub says that
\* line 123 was reached with a negative size_to_fill, which memcpy takes as a
\* size_t: the call has no defined outcome from there.
agg_obu_send(c, buf, size, last, mps) ==
    LET e             == eb_aom_uleb_encode(Word(size), SIZEOF_INT, TRUE, TRUE)
        buffered_size == c.buf_ptr
        header_size   == IF buffered_size > 0 THEN e.size ELSE e.size + AGGRE_HEADER_SIZE
    IN  IF buffered_size + size + header_size <= mps
        THEN LET p  == IF buffered_size = 0 THEN c.buf_ptr + 1 ELSE c.buf_ptr
                 m1 == agg_update_aggregate_hdr(c.buf, c.buffered_nals, AV1_RTP_FLAG_NONE, 0)
                 m2 == Store(m1, p, e.coded)
                 m3 == Store(m2, p + e.size, SubSeq(buf, 1, size))
             IN  [c |-> [c EXCEPT !.buf = m3, !.buf_ptr = p + size + e.size],
                  out |-> << >>, ub |-> FALSE]
        ELSE IF buffered_size > 0 /\ size_to_fill(mps, buffered_size) < 0
        THEN [c |-> c, out |-> << >>, ub |-> TRUE]
        ELSE LET f == IF buffered_size > 0
                      THEN agg_fill(c, buf, size, mps)
                      ELSE [c |-> c, buf |-> buf, size |-> size, out |-> << >>]
                 r == agg_split_loop(f.c, f.buf, f.size, mps, f.out)
                 t == agg_send_rest(r.c, r.buf, r.size, last)
             IN  [c |-> t.c, out |-> r.out \o t.out, ub |-> FALSE]

AggUnits == { << >> } \cup AccessUnits

InitAgg ==
    /\ max_payload_size \in 2..MaxAggPayload
    /\ firstPacketReceived = 0
    /\ buf0 = 0
    /\ cur_timestamp = 0
    /\ au = << >>
    /\ enc = NoRun
    /\ sent = << >>
    /\ sess = NoSess
    /\ net = << >>
    /\ rtp_av1_ctx = NoCtx
    /\ call = NoCall
    /\ received = << >>
    /\ loss = NoLoss
    /\ stale = {}
    /\ leb = NoLeb
    /\ streams = << >>
    /\ \E h \in {0, 255} : agg = [NoAgg EXCEPT !.buf = << h >>]   \* s->buf is allocated, not initialised
    /\ svt = NoSvt

aggOthers == << max_payload_size, firstPacketReceived, buf0, cur_timestamp, au, enc, sent, sess,
                net, decVars, received, loss, leb, streams, svt >>

\* ff_rtp_send_av1 is called: lines 152-160
AggEnter == \E a \in AggUnits :
    /\ agg.pc = "idle"
    /\ agg' = [agg EXCEPT
                 !.pc = "while", !.au = a, !.obus = a, !.buf_ptr = 0,
                 !.buf = IF firstPacketReceived = 0
                         THEN agg_update_aggregate_hdr(@, agg.buffered_nals, AGG_AV1_RTP_FLAG_N, 1)
                         ELSE @]
    /\ UNCHANGED aggOthers

\* One pass of the loop of lines 161-173
AggNextObu ==
    /\ agg.pc = "while"
    /\ Len(AuBytes(agg.obus)) > 0
    /\ LET size  == Len(AuBytes(agg.obus))
           p1    == parse_obu_header(agg.obus)
           skip  == p1.type = AV1_OBU_TEMPORAL_DELIMITER
           obus1 == IF skip THEN Tail(agg.obus) ELSE agg.obus
           size1 == IF skip THEN size - p1.len ELSE size
           len   == IF skip THEN parse_obu_header(obus1).len ELSE p1.len
       IN  \E r \in { agg_obu_send([buf |-> agg.buf, buf_ptr |-> agg.buf_ptr,
                                    buffered_nals |-> agg.buffered_nals],
                                   AuBytes(obus1), len, is_last_obu(size1, len),
                                   max_payload_size) } :
               agg' = [agg EXCEPT
                         !.pc = IF r.ub THEN "wild" ELSE "while",
                         !.buf = r.c.buf, !.buf_ptr = r.c.buf_ptr,
                         !.buffered_nals = r.c.buffered_nals,
                         !.obus = Tail(obus1), !.k = @ + 1,
                         !.out = @ \o r.out]
    /\ UNCHANGED aggOthers

\* Line 174, and the return
AggReturn ==
    /\ agg.pc = "while"
    /\ Len(AuBytes(agg.obus)) = 0
    /\ \E f \in { agg_flush_buffered([buf |-> agg.buf, buf_ptr |-> agg.buf_ptr,
                                      buffered_nals |-> agg.buffered_nals], 1) } :
           agg' = [agg EXCEPT !.pc = "done", !.buf_ptr = f.c.buf_ptr,
                              !.buffered_nals = f.c.buffered_nals, !.out = @ \o f.out]
    /\ UNCHANGED aggOthers

\* Line 123 with a negative size_to_fill: memcpy is asked to copy some 2^64
\* bytes.  The call is killed, or has sent bytes that are not of the access
\* unit when it returns, or happens to return.
AggWild ==
    /\ agg.pc = "wild"
    /\ \/ agg' = [agg EXCEPT !.pc = "crashed"]
       \/ agg' = [agg EXCEPT !.pc = "done", !.buf_ptr = 0,
                             !.out = Append(@, ff_rtp_send_data(0, << 255 >>, 1))]
       \/ agg' = [agg EXCEPT !.pc = "done", !.buf_ptr = 0]
    /\ UNCHANGED aggOthers

NextAgg == AggEnter \/ AggNextObu \/ AggReturn \/ AggWild

SpecAgg == InitAgg /\ [][NextAgg]_vars

----------------------------------------------------------------------------
(* The libsvt_av1 wrapper, rtpdec_av1.c lines 146-672, as far as the end of   *)
(* stream goes.  svt is [eos_flag, queue, calls, op, ret, queried, seen]:     *)
(* queue are the pictures handed to the encoder and not yet given back as     *)
(* packets ("pic" a frame, "eos" the empty picture flagged                    *)
(* EB_BUFFERFLAG_EOS); calls, op, ret and queried tell of the calls made, of  *)
(* the last one, what it returned and whether it asked the encoder for a      *)
(* packet; seen says that eos_flag was EOS_RECEIVED at some time.  The        *)
(* encoder gives back a packet for each picture, in order, the one for the    *)
(* flagged picture flagged, or says that its queue is empty.  Buffers are     *)
(* taken to be allocated (av_buffer_pool_get).                                *)

\* eb_svt_enc_send_picture(svt_handle, headerPtr)
eb_svt_enc_send_picture(queue, pic) == Append(queue, pic)

\* eb_send_frame(avctx, frame), lines 466-495; frame is FALSE for NULL
eb_send_frame(c, frame) ==
    IF ~frame
    THEN [c EXCEPT !.queue = eb_svt_enc_send_picture(@, "eos"),
                   !.eos_flag = EOS_SENT, !.ret = 0]
    ELSE [c EXCEPT !.queue = eb_svt_enc_send_picture(@, "pic"), !.ret = 0]

\* What eb_svt_get_packet may answer (line 508): the packet of the oldest
\* picture, or EB_NoErrorEmptyQueue
eb_svt_get_packet(queue) ==
    { "empty" } \cup (IF queue # << >> THEN { Head(queue) } ELSE {})

\* eb_receive_packet(avctx, pkt), lines 497-546, when eb_svt_get_packet answers got
eb_receive_packet(c, got) ==
    IF c.eos_flag = EOS_RECEIVED
    THEN [c EXCEPT !.ret = AVERROR_EOF, !.queried = FALSE]
    ELSE IF got = "empty"
    THEN [c EXCEPT !.ret = AVERROR_EAGAIN, !.queried = TRUE]
    ELSE [c EXCEPT !.queue = Tail(@), !.ret = 0, !.queried = TRUE,
                   !.eos_flag = IF got = "eos" THEN EOS_RECEIVED ELSE @]

InitSvt ==
    /\ max_payload_size = 2
    /\ firstPacketReceived = 0
    /\ buf0 = 0
    /\ cur_timestamp = 0
    /\ au = << >>
    /\ enc = NoRun
    /\ sent = << >>
    /\ sess = NoSess
    /\ net = << >>
    /\ rtp_av1_ctx = NoCtx
    /\ call = NoCall
    /\ received = << >>
    /\ loss = NoLoss
    /\ stale = {}
    /\ leb = NoLeb
    /\ streams = << >>
    /\ agg = NoAgg
    /\ svt = NoSvt

svtOthers == << max_payload_size, firstPacketReceived, buf0, cur_timestamp, au, enc, sent, sess,
                net, decVars, received, loss, leb, streams, agg >>

\* The bookkeeping of a call: c is the context the call left
Called(c, op) ==
    [c EXCEPT !.calls = @ + 1, !.op = op,
              !.seen = svt.seen \/ c.eos_flag = EOS_RECEIVED]

SendFrame == \E frame \in BOOLEAN :
    /\ svt.calls < MaxSvtCalls
    /\ svt' = Called(eb_send_frame(svt, frame), "send")
    /\ UNCHANGED svtOthers

ReceivePacket == \E got \in eb_svt_get_packet(svt.queue) :
    /\ svt.calls < MaxSvtCalls
    /\ svt' = Called(eb_receive_packet(svt, got), "receive")
    /\ UNCHANGED svtOthers

NextSvt == SendFrame \/ ReceivePacket

SpecSvt == InitSvt /\ [][NextSvt]_vars

----------------------------------------------------------------------------
(* One call of ff_rtp_send_av1 followed step by step, one pass of a loop at a  *)
(* time, for any max_payload_size from 1 on and any access unit, also an      *)
(* empty one and one that holds a temporal delimiter only.  enc is            *)
(* [pc, obus, size, len, k, buf, first, last]: obus and size are the unparsed *)
(* rest of the access unit and the local size of ff_rtp_send_av1, len its     *)
(* local len, k the number of obu_send calls made; buf, first and last are    *)
(* the unsent rest of the OBU and the locals of the obu_send call under way.  *)

\* What the OBU boundary parser reports when no byte is left to parse:
\* nothing (0), or an error as the parsers of libavcodec report it.
NothingToParse == { 0, AVERROR_INVALIDDATA }

StepAccessUnits == AccessUnits \cup { << >>, << TemporalDelimiter >> }

InitStep ==
    /\ max_payload_size \in 1..MaxPayloadSize
    /\ firstPacketReceived \in {0, 1}
    /\ buf0 \in {0, 255}
    /\ cur_timestamp = 0
    /\ au = << >>
    /\ enc = NoRun
    /\ sent = << >>
    /\ sess = NoSess
    /\ net = << >>
    /\ rtp_av1_ctx = NoCtx
    /\ call = NoCall
    /\ received = << >>
    /\ loss = NoLoss
    /\ stale = {}
    /\ streams = << >>
    /\ agg = NoAgg
    /\ svt = NoSvt
    /\ leb = NoLeb

\* Lines 315-323: the call is made
Enter == \E a \in StepAccessUnits :
    /\ enc.pc = "idle"
    /\ enc' = [NoRun EXCEPT !.pc = "while", !.obus = a, !.size = Len(AuBytes(a))]
    /\ au' = a
    /\ sent' = << >>
    /\ cur_timestamp' = cur_timestamp + 1
    /\ UNCHANGED << max_payload_size, firstPacketReceived, buf0, sess,
                    net, decVars, received, loss, leb, restVars >>

\* Lines 325 and 338: size > 0 is false, flush_buffered finds nothing buffered
\* (s->buf_ptr is s->buf since line 323), the call returns
Return ==
    /\ enc.pc = "while"
    /\ enc.size <= 0
    /\ \E out \in { TagObu(flush_buffered(buf0, 0, << >>, 1), 0) } :
           /\ sent' = sent \o out
           /\ sess' = Account(out)
    /\ enc' = [enc EXCEPT !.pc = "done"]
    /\ UNCHANGED << max_payload_size, firstPacketReceived, buf0, cur_timestamp, au,
                    net, decVars, received, loss, leb, restVars >>

\* Lines 326-336: one pass of the loop of ff_rtp_send_av1, up to the return of
\* obu_send or, for an OBU that has to be split, up to its loop
NextObu ==
    /\ enc.pc = "while"
    /\ enc.size > 0
    /\ LET p1    == parse_obu_header(enc.obus)
           skip  == p1.type = AV1_OBU_TEMPORAL_DELIMITER
           obus1 == IF skip THEN Tail(enc.obus) ELSE enc.obus
           size1 == IF skip THEN enc.size - p1.len ELSE enc.size
       IN  \E len \in IF ~skip THEN { p1.len }
                      ELSE IF obus1 = << >> THEN NothingToParse
                      ELSE { parse_obu_header(obus1).len } :
             IF len <= 0 \/ fits_one_packet(len, max_payload_size)
             THEN \E r \in { obu_send([hdr |-> buf0, fpr |-> firstPacketReceived],
                                      AuBytes(obus1), len, is_last_obu(size1, len),
                                      max_payload_size) } :
                    /\ sent' = sent \o TagObu(r.out, enc.k + 1)
                    /\ sess' = Account(r.out)
                    /\ buf0' = r.hdr
                    /\ firstPacketReceived' = r.fpr
                    /\ enc' = [enc EXCEPT !.pc   = IF len < 0 THEN "wild" ELSE "while",
                                          !.obus = IF len <= 0 THEN << >> ELSE Tail(obus1),
                                          !.size = size1 - len,
                                          !.len  = len,
                                          !.k    = @ + 1]
             ELSE /\ enc' = [enc EXCEPT !.pc    = "split",
                                        !.obus  = Tail(obus1),
                                        !.size  = size1,
                                        !.len   = len,
                                        !.k     = @ + 1,
                                        !.buf   = SubSeq(AuBytes(obus1), 1, len),
                                        !.first = 1,
                                        !.last  = is_last_obu(size1, len)]
                  /\ UNCHANGED << sent, sess, buf0, firstPacketReceived >>
    /\ UNCHANGED << max_payload_size, cur_timestamp, au, net, decVars, received, loss, leb, restVars >>

\* Lines 295-311 and 335-336: one pass of the loop of obu_send, or, when the
\* rest fits, the last packet of the OBU and the return to ff_rtp_send_av1
SplitStep ==
    /\ enc.pc = "split"
    /\ IF more_to_split(Len(enc.buf), max_payload_size)
       THEN /\ Len(sent) < MaxPackets
            /\ \E r \in { obu_send_pass(buf0, enc.first, enc.buf, max_payload_size) } :
                   /\ sent' = sent \o TagObu(<< r.pkt >>, enc.k)
                   /\ sess' = Account(<< r.pkt >>)
                   /\ buf0' = r.hdr
                   /\ enc' = [enc EXCEPT !.buf = r.buf, !.first = 0]
       ELSE \E t \in { obu_send_tail(buf0, enc.buf, enc.last) } :
                   /\ sent' = sent \o TagObu(<< t.pkt >>, enc.k)
                   /\ sess' = Account(<< t.pkt >>)
                   /\ buf0' = t.hdr
                   /\ enc' = [enc EXCEPT !.pc = "while", !.size = @ - enc.len,
                                         !.buf = << >>, !.first = 0, !.last = 0]
    /\ UNCHANGED << max_payload_size, firstPacketReceived, cur_timestamp, au,
                    net, decVars, received, loss, leb, restVars >>

\* Lines 335-336 with len < 0, then 325-334: size has grown and buf points
\* before the access unit; what parse_obu_header and obu_send read there is
\* undefined.  The call is killed, or sends bytes that are not of the access
\* unit and goes on, or happens to return.
Wild ==
    /\ enc.pc = "wild"
    /\ \/ /\ enc' = [enc EXCEPT !.pc = "crashed"]
          /\ UNCHANGED << sent, sess >>
       \/ /\ Len(sent) < MaxPackets
          /\ \E pkt \in { ff_rtp_send_data(AV1_RTP_FLAG_NONE, << 255 >>, 0) } :
                 /\ sent' = sent \o TagObu(<< pkt >>, enc.k + 1)
                 /\ sess' = Account(<< pkt >>)
          /\ enc' = [enc EXCEPT !.k = @ + 1]
       \/ /\ enc' = [enc EXCEPT !.pc = "done"]
          /\ UNCHANGED << sent, sess >>
    /\ UNCHANGED << max_payload_size, firstPacketReceived, buf0, cur_timestamp, au,
                    net, decVars, received, loss, leb, restVars >>

NextStep == Enter \/ Return \/ NextObu \/ SplitStep \/ Wild

SpecStep == InitStep /\ [][NextStep]_vars

----------------------------------------------------------------------------
(* One call of av1_handle_packet on the receiver's context *)

Handle(buf, timestamp) ==
    \E r \in { av1_handle_packet(rtp_av1_ctx, timestamp, buf, Len(buf)) } :
        /\ rtp_av1_ctx' = r.ctx
        /\ call' = [len |-> Len(buf), buf |-> buf, timestamp |-> timestamp,
                    seq |-> call.seq + 1,
                    was |-> rtp_av1_ctx, res |-> r.res, pkt |-> r.pkt,
                    first_packet |-> r.first_packet]
        /\ stale' = IF rtp_av1_ctx.buf /\ rtp_av1_ctx.timestamp # timestamp
                        THEN stale \cup Range(rtp_av1_ctx.data)
                        ELSE stale

----------------------------------------------------------------------------
(* Sender, network and receiver: one access unit, packetized at any point of  *)
(* the sender's session (the latch set or not), on its way to a receiver with *)
(* no buffer open; each packet is delivered in order or dropped.              *)

Init ==
    /\ max_payload_size \in 2..MaxPayloadSize
    /\ firstPacketReceived \in {0, 1}
    /\ buf0 \in {0, 255}
    /\ cur_timestamp = 0
    /\ au = << >>
    /\ enc = NoRun
    /\ sent = << >>
    /\ sess = NoSess
    /\ net = << >>
    /\ rtp_av1_ctx = NoCtx
    /\ call = NoCall
    /\ received = << >>
    /\ loss = NoLoss
    /\ stale = {}
    /\ streams = << >>
    /\ agg = NoAgg
    /\ svt = NoSvt
    /\ leb = NoLeb

Transmit == \E a \in AccessUnits :
    /\ cur_timestamp = 0
    /\ Packetize(a)
    /\ net' = [i \in 1..Len(sent') |-> [data |-> sent'[i].data, timestamp |-> cur_timestamp']]
    /\ received' = << >>
    /\ loss' = [loss EXCEPT !.interior = 0, !.other = 0, !.after = FALSE]
    /\ UNCHANGED decVars

Deliver ==
    /\ net # << >>
    /\ Handle(Head(net).data, Head(net).timestamp)
    /\ net' = Tail(net)
    /\ received' = IF call'.res = 0 THEN received \o call'.pkt ELSE received
    /\ loss' = [loss EXCEPT
                  !.after    = loss.holeOpen /\ HasFlag(Head(net), AV1_RTP_FLAG_Z),
                  !.holeOpen = @ /\ HasFlag(Head(net), AV1_RTP_FLAG_Y),
                  !.holeTs   = IF Head(net).timestamp # @ THEN 0 ELSE @]
    /\ UNCHANGED encVars

Drop ==
    /\ net # << >>
    /\ loss.interior + loss.other < MaxDrops
    /\ net' = Tail(net)
    /\ loss' = IF IsInterior(Head(net))
               THEN [loss EXCEPT !.interior = @ + 1, !.holeOpen = TRUE,
                                 !.holeTs = Head(net).timestamp]
               ELSE [loss EXCEPT !.other = @ + 1,
                                 !.holeOpen = @ /\ HasFlag(Head(net), AV1_RTP_FLAG_Y)]
    /\ UNCHANGED << encVars, decVars, received >>

Next == Transmit \/ Deliver \/ Drop

Spec == Init /\ [][Next]_vars

----------------------------------------------------------------------------
(* The receiver alone, handed arbitrary packets *)

Headers == { z * AV1_RTP_FLAG_Z + y * AV1_RTP_FLAG_Y + w * AV1_RTP_FLAG_W1 + n * DEC_AV1_RTP_FLAG_N :
             z \in 0..1, y \in 0..1, w \in 0..3, n \in 0..1 }

\* The payload of the seq-th packet handed over: position tags (16 * seq + offset)
PayloadBytes(seq, n) == [j \in 1..n |-> 16 * seq + j]

Packets(seq) ==
    { << >> } \cup { << h >> \o PayloadBytes(seq, n) : h \in Headers, n \in 0..(MaxPktLen - 1) }

InitDec ==
    /\ max_payload_size = 2
    /\ firstPacketReceived = 0
    /\ buf0 = 0
    /\ cur_timestamp = 0
    /\ au = << >>
    /\ enc = NoRun
    /\ sent = << >>
    /\ sess = NoSess
    /\ net = << >>
    /\ rtp_av1_ctx = NoCtx
    /\ call = NoCall
    /\ received = << >>
    /\ loss = NoLoss
    /\ stale = {}
    /\ streams = << >>
    /\ agg = NoAgg
    /\ svt = NoSvt
    /\ leb = NoLeb

Receive == \E buf \in Packets(call.seq + 1), timestamp \in 1..NumTimestamps :
    /\ call.seq < MaxCalls
    /\ Len(rtp_av1_ctx.data) + Len(buf) <= MaxBufLen + AGGRE_HEADER_SIZE
    /\ Handle(buf, timestamp)
    /\ UNCHANGED << encVars, net, received, loss >>

NextDec == Receive

SpecDec == InitDec /\ [][NextDec]_vars

----------------------------------------------------------------------------
(* Properties of the packetizer, checked under SpecEnc *)

PayloadsOf(pkts) == Flatten([i \in 1..Len(pkts) |-> Tail(pkts[i].data)])

\* The packets the k-th obu_send call of the last ff_rtp_send_av1 passed on
PktsOf(k) == SelectSeq(sent, LAMBDA p : p.obu = k)

\* C3: over a session that emitted at least one packet, exactly one packet
\* has the N bit set, and it is the first packet passed to ff_rtp_send_data.
C3_NFlagLatch ==
    sess.started => (sess.withN = 1 /\ sess.firstN)

\* C4: every packet passed to ff_rtp_send_data that has the N bit (0x08) set
\* has the Z bit (0x80) clear.
C4_HeaderInvariant ==
    \A i \in 1..Len(sent) :
        HasFlag(sent[i], AV1_RTP_FLAG_N) => ~HasFlag(sent[i], AV1_RTP_FLAG_Z)

\* The packet with N follows, in one call, a final fragment (Z) of an earlier OBU
C4_Witness ==
    \E i \in 2..Len(sent) :
        /\ HasFlag(sent[i], AV1_RTP_FLAG_N)
        /\ HasFlag(sent[i - 1], AV1_RTP_FLAG_Z)

\* C5: an OBU of at most max_payload_size - 1 bytes is sent as exactly one
\* packet; an OBU of max_payload_size bytes or more as at least two, each but
\* the last of exactly max_payload_size bytes.
C5_FragmentationBoundary ==
    \A k \in 1..Len(Carried(au)) :
        LET L  == Len(Carried(au)[k].bytes)
            pk == PktsOf(k)
        IN  /\ L <= max_payload_size - 1 => Len(pk) = 1
            /\ L >= max_payload_size =>
                  /\ Len(pk) >= 2
                  /\ \A i \in 1..(Len(pk) - 1) : Len(pk[i].data) = max_payload_size

\* One OBU of exactly max_payload_size - 1 bytes, one of exactly
\* max_payload_size bytes, both sent
C5_Witness ==
    /\ Len(Carried(au)) = 2
    /\ Len(Carried(au)[1].bytes) = max_payload_size - 1
    /\ Len(Carried(au)[2].bytes) = max_payload_size
    /\ Len(PktsOf(1)) = 1
    /\ Len(PktsOf(2)) = 2

\* C6: every packet passed to ff_rtp_send_data is at most max_payload_size
\* bytes long and at least 2 bytes long, the aggregation header included.
C6_PacketSizeBound ==
    \A i \in 1..Len(sent) :
        /\ Len(sent[i].data) <= max_payload_size
        /\ Len(sent[i].data) >= 2

\* A call that sent a full packet and, after it, a shorter one
C6_Witness ==
    \E i, j \in 1..Len(sent) :
        /\ i < j
        /\ Len(sent[i].data) = max_payload_size
        /\ Len(sent[j].data) < max_payload_size

HeaderW(pkt) == BitAnd(pkt.data[1], OBU_ELE_NUM_MASK) \div 16

\* C17: of an OBU sent in two or more packets, the first has Z = 0 and Y = 1,
\* each interior one Z = 1 and Y = 1 and max_payload_size - 1 payload bytes,
\* the final one Z = 1 and Y = 0 and at least one payload byte; an OBU of at
\* most max_payload_size - 1 bytes is sent in one packet with Z = 0, Y = 0
\* and W = 0.
C17_FragmentFlags ==
    \A k \in 1..Len(Carried(au)) :
        LET pk == PktsOf(k)
            n  == Len(pk)
        IN  /\ n >= 2 =>
                  /\ ~HasFlag(pk[1], AV1_RTP_FLAG_Z) /\ HasFlag(pk[1], AV1_RTP_FLAG_Y)
                  /\ \A i \in 2..(n - 1) :
                         /\ HasFlag(pk[i], AV1_RTP_FLAG_Z) /\ HasFlag(pk[i], AV1_RTP_FLAG_Y)
                         /\ Len(pk[i].data) - AGGRE_HEADER_SIZE = max_payload_size - 1
                  /\ HasFlag(pk[n], AV1_RTP_FLAG_Z) /\ ~HasFlag(pk[n], AV1_RTP_FLAG_Y)
                  /\ Len(pk[n].data) - AGGRE_HEADER_SIZE >= 1
            /\ Len(Carried(au)[k].bytes) + 1 <= max_payload_size =>
                  /\ n = 1
                  /\ ~HasFlag(pk[1], AV1_RTP_FLAG_Z) /\ ~HasFlag(pk[1], AV1_RTP_FLAG_Y)
                  /\ HeaderW(pk[1]) = 0

\* One OBU sent with two or more interior fragments, another sent whole
C17_Witness ==
    /\ Len(Carried(au)) = 2
    /\ \E k \in 1..2 : Len(PktsOf(k)) >= 4
    /\ \E k \in 1..2 : Len(PktsOf(k)) = 1

\* The OBUs of the last call sent in two or more packets after a packet of the
\* session had been sent
Fragmented == { k \in 1..Len(Carried(au)) : Len(PktsOf(k)) >= 2 /\ (cur_timestamp > 1 \/ k > 1) }

\* C18 as stated: of such an OBU, the header byte of the first fragment is
\* 0x50, that of every interior fragment 0xC0, that of the final one 0x80.
C18_FragmentHeaderBytes ==
    \A k \in Fragmented :
        LET pk == PktsOf(k)
        IN  /\ pk[1].data[1] = 80
            /\ \A i \in 2..(Len(pk) - 1) : pk[i].data[1] = 192
            /\ pk[Len(pk)].data[1] = 128

\* C18 as amended: the header byte of the first fragment is 0x50 (Y, W = 1),
\* that of every interior fragment 0xD0 (Z, Y, W = 1), that of the final one
\* 0x80 (Z).
C18_FragmentHeaderBytesAmended ==
    \A k \in Fragmented :
        LET pk == PktsOf(k)
        IN  /\ pk[1].data[1] = 80
            /\ \A i \in 2..(Len(pk) - 1) : pk[i].data[1] = 208
            /\ pk[Len(pk)].data[1] = 128

\* An OBU sent with two or more interior fragments, in the second call of a
\* session
C18_Witness ==
    /\ cur_timestamp > 1
    /\ \E k \in Fragmented : Len(PktsOf(k)) >= 4

----------------------------------------------------------------------------
(* Properties of the scenario of large packets, checked under SpecScn *)

SentSizes == [i \in 1..Len(sent) |-> Len(sent[i].data)]

Scenario3000 ==
    /\ max_payload_size = 1200
    /\ Len(Carried(au)) = 1
    /\ Len(Carried(au)[1].bytes) = 3000

\* C19 as stated: one OBU of 3000 bytes at max_payload_size = 1200 is passed
\* to ff_rtp_send_data as three packets of 1200, 1200 and 602 bytes.
C19_ScenarioSizes == Scenario3000 => SentSizes = << 1200, 1200, 602 >>

\* C19 as amended: as three packets of 1200, 1200 and 603 bytes (1199, 1199
\* and 602 bytes of the OBU, each behind the header byte).
C19_ScenarioSizesAmended ==
    Scenario3000 =>
        /\ SentSizes = << 1200, 1200, 603 >>
        /\ PayloadsOf(sent) = AuBytes(Carried(au))

C19_Witness == Scenario3000 /\ Len(sent) = 3 /\ Len(au) = 2

----------------------------------------------------------------------------
(* Properties of the LEB128 helpers, checked under SpecLeb *)

\* C20: for a value of at most 2^56 - 1, a capacity of at least
\* eb_aom_uleb_size_in_bytes(value) and places to write to, eb_aom_uleb_encode
\* returns 0 and writes eb_aom_uleb_size_in_bytes(value) bytes, 1 to 8 of them
\* and 1 for the value 0, each but the last with the bit 0x80 and the last
\* without it, and decoding those bytes gives the value.
C20_Leb128RoundTrip ==
    (/\ leb.pc = "done"
     /\ ~GreaterThan(leb.value, kMaximumLeb128Value)
     /\ leb.available >= eb_aom_uleb_size_in_bytes(leb.value)
     /\ leb.coded_value /\ leb.coded_size) =>
        LET n == Len(leb.coded)
        IN  /\ leb.ret = 0
            /\ n = eb_aom_uleb_size_in_bytes(leb.value)
            /\ leb.size = n
            /\ n >= 1 /\ n <= 8
            /\ ~NonZero(leb.value) => n = 1
            /\ \A i \in 1..(n - 1) : leb.coded[i] >= 128
            /\ leb.coded[n] < 128
            /\ uleb_decode(leb.coded) = [ok |-> TRUE, value |-> leb.value]

\* 2^56 - 1 was encoded in 8 bytes
C20_Witness ==
    /\ leb.pc = "done"
    /\ leb.value = kMaximumLeb128Value
    /\ leb.ret = 0
    /\ Len(leb.coded) = 8

\* The value is 2^56 or more: one of its bits 56..63 is set
Above56Bits(v) == \E i \in 57..64 : v[i] = 1

\* C21: given places to write to, eb_aom_uleb_encode returns -1 exactly when
\* the value exceeds 2^56 - 1 or the capacity is below
\* eb_aom_uleb_size_in_bytes(value); it then writes no byte and no size; in
\* every other case it returns 0.
C21_Leb128EncodeFailure ==
    (leb.pc = "done" /\ leb.coded_value /\ leb.coded_size) =>
        /\ leb.ret = -1 <=>
               \/ Above56Bits(leb.value)
               \/ leb.available < eb_aom_uleb_size_in_bytes(leb.value)
        /\ leb.ret = -1 => (leb.coded = << >> /\ leb.size = -1)
        /\ leb.ret # -1 => (leb.ret = 0 /\ leb.coded # << >> /\ leb.size = Len(leb.coded))

\* A value below 2^56 that needs two bytes or more was refused for a capacity
\* one byte short
C21_Witness ==
    /\ leb.pc = "done"
    /\ leb.coded_value /\ leb.coded_size
    /\ ~Above56Bits(leb.value)
    /\ leb.available >= 1
    /\ leb.available = eb_aom_uleb_size_in_bytes(leb.value) - 1
    /\ leb.ret = -1

----------------------------------------------------------------------------
(* Properties of one call followed step by step, checked under SpecStep *)

\* C14: with max_payload_size below 2, a call on an access unit that holds an
\* OBU to carry passes no packet to ff_rtp_send_data.
C14_ConfigurationError ==
    (enc.pc # "idle" /\ max_payload_size < 2 /\ Carried(au) # << >>) => sent = << >>

\* C15: a call on an access unit with no OBU to carry (an empty one, or one
\* that holds a temporal delimiter only) is not killed and passes no packet to
\* ff_rtp_send_data.
C15_EmptyAccessUnit ==
    (enc.pc # "idle" /\ Carried(au) = << >>) =>
        /\ sent = << >>
        /\ enc.pc # "crashed"

----------------------------------------------------------------------------
(* Properties of sender and receiver together, checked under Spec *)

ObuByteSet(obus) == { obus[i].bytes : i \in 1..Len(obus) }

C2_LossResilience ==
    (cur_timestamp > 0 /\ loss.other = 0) =>
        /\ loss.after => call.res = AVERROR_EAGAIN
        /\ loss.holeTs = cur_timestamp =>
               (rtp_av1_ctx.buf /\ rtp_av1_ctx.timestamp = loss.holeTs)
        /\ (call.res = 0 /\ call.timestamp = cur_timestamp) =>
               call.pkt \in ObuByteSet(Carried(au))

----------------------------------------------------------------------------
(* Properties of the receiver, checked under SpecDec *)

CallZ == BitAnd(call.buf[1], AV1_RTP_FLAG_Z) # 0
CallY == BitAnd(call.buf[1], AV1_RTP_FLAG_Y) # 0

\* C8: at most one dyn. buffer is open, it is the one rtp_av1_ctx->buf points
\* to, and every byte in it came in a packet of the timestamp recorded in
\* rtp_av1_ctx->timestamp.
C8_BufferInvariant ==
    /\ rtp_av1_ctx.live <= 1
    /\ rtp_av1_ctx.buf <=> rtp_av1_ctx.live = 1
    /\ Len(rtp_av1_ctx.src) = Len(rtp_av1_ctx.data)
    /\ \A i \in 1..Len(rtp_av1_ctx.src) : rtp_av1_ctx.src[i] = rtp_av1_ctx.timestamp
    /\ ~rtp_av1_ctx.buf => rtp_av1_ctx.data = << >>

\* A first fragment arrived while a buffer of another timestamp held bytes,
\* and a buffer holding bytes is open after the call
C8_Witness ==
    /\ call.was.buf
    /\ call.was.data # << >>
    /\ call.was.timestamp # call.timestamp
    /\ rtp_av1_ctx.buf
    /\ rtp_av1_ctx.data # << >>

\* C11: the bytes that were in the open buffer when av1_handle_packet was
\* called with another timestamp are discarded before the packet is processed,
\* whatever the packet is: none of them is in the buffer after that call or
\* any later one, and none is in a complete packet this or a later call returns.
C11_DiscontinuityDiscard ==
    /\ (call.was.buf /\ call.was.timestamp # call.timestamp) =>
           /\ Range(call.was.data) \cap Range(rtp_av1_ctx.data) = {}
           /\ Range(call.was.data) \cap Range(call.pkt) = {}
    /\ Range(rtp_av1_ctx.data) \cap stale = {}
    /\ call.res = 0 => Range(call.pkt) \cap stale = {}

\* A buffer holding bytes met a packet of another timestamp, and a later call
\* returned a packet completed from two fragments
C11_Witness ==
    /\ stale # {}
    /\ call.was.buf
    /\ call.res = 0
    /\ Len(call.pkt) >= 2

\* C12: with no buffer open (none before the call, or one of another
\* timestamp, which the call drops first), a fragment of 2 bytes or more opens
\* one, which records the packet's timestamp, only if it is a first fragment
\* (Z = 0, Y = 1); an interior (Z = 1, Y = 1) or last (Z = 1, Y = 0) fragment
\* gets AVERROR(EAGAIN), no complete packet, and leaves the buffer closed and
\* empty.
C12_OpeningTheBuffer ==
    (/\ call.len >= 2
     /\ ~call.was.buf \/ call.was.timestamp # call.timestamp
     /\ CallZ \/ CallY) =>
        /\ rtp_av1_ctx.buf <=> (~CallZ /\ CallY)
        /\ rtp_av1_ctx.buf => rtp_av1_ctx.timestamp = call.timestamp
        /\ CallZ =>
               /\ call.res = AVERROR_EAGAIN
               /\ call.pkt = << >>
               /\ rtp_av1_ctx.data = << >>

\* After a first call, a first fragment opened a buffer that had to record a
\* timestamp other than the one recorded before
C12_Witness ==
    /\ call.len >= 2
    /\ ~call.was.buf
    /\ call.was.timestamp # 0
    /\ call.was.timestamp # call.timestamp
    /\ ~CallZ /\ CallY
    /\ rtp_av1_ctx.buf

\* C13: a packet of 2 bytes or more arriving while a buffer of its timestamp
\* is open is appended without its header; a last fragment (Z = 1, Y = 0)
\* returns the buffer's bytes as a complete packet, in arrival order and ending
\* with its own payload, and closes the buffer; a first or interior fragment
\* (Y = 1) gets AVERROR(EAGAIN) and the buffer stays open.  A buffer just
\* opened holds the payload of the fragment that opened it.
C13_Completion ==
    /\ (call.len >= 2 /\ call.was.buf /\ call.was.timestamp = call.timestamp) =>
           /\ (CallZ /\ ~CallY) =>
                  /\ call.res = 0
                  /\ call.pkt = call.was.data \o SubSeq(call.buf, 2, call.len)
                  /\ \A i \in 1..(Len(call.pkt) - 1) : call.pkt[i] < call.pkt[i + 1]
                  /\ ~rtp_av1_ctx.buf
           /\ CallY =>
                  /\ call.res = AVERROR_EAGAIN
                  /\ call.pkt = << >>
                  /\ rtp_av1_ctx.buf
                  /\ rtp_av1_ctx.data = call.was.data \o SubSeq(call.buf, 2, call.len)
    /\ (call.len >= 2 /\ ~call.was.buf /\ rtp_av1_ctx.buf) =>
           rtp_av1_ctx.data = SubSeq(call.buf, 2, call.len)

\* A last fragment completed a packet from three fragments
C13_Witness ==
    /\ call.len >= 2
    /\ call.was.buf
    /\ call.was.timestamp = call.timestamp
    /\ CallZ /\ ~CallY
    /\ call.res = 0
    /\ Len(call.pkt) >= 3
    /\ call.pkt[1] < 32
    /\ call.pkt[Len(call.pkt)] > 48

\* The call c handed an unfragmented packet (Z = 0, Y = 0, W = 0) of 2 bytes or
\* more to a receiver with a buffer of the packet's timestamp open
UnfragmentedOnOpen(c) ==
    /\ c.len >= 2
    /\ BitAnd(c.buf[1], AV1_RTP_FLAG_Z + AV1_RTP_FLAG_Y + OBU_ELE_NUM_MASK) = 0
    /\ c.was.buf
    /\ c.was.timestamp = c.timestamp

\* One step: what an unfragmented packet on an open buffer does, and what a
\* last fragment of the same timestamp handed over right after it returns
UnfragmentedThenLast ==
    /\ UnfragmentedOnOpen(call') =>
           /\ call'.res = 0
           /\ call'.pkt = SubSeq(call'.buf, 2, call'.len)
           /\ rtp_av1_ctx' = rtp_av1_ctx
    /\ (/\ UnfragmentedOnOpen(call)
        /\ call'.seq = call.seq + 1
        /\ call'.len >= 2
        /\ call'.timestamp = call.timestamp
        /\ BitAnd(call'.buf[1], AV1_RTP_FLAG_Z) # 0
        /\ BitAnd(call'.buf[1], AV1_RTP_FLAG_Y) = 0) =>
           /\ call'.res = 0
           /\ call'.pkt = call.was.data \o SubSeq(call'.buf, 2, call'.len)
           /\ ~rtp_av1_ctx'.buf

\* C22: such a call returns the packet's payload and leaves the buffer as it
\* was, open, with its timestamp and its bytes; and a last fragment of that
\* timestamp handed over next returns the bytes buffered before the
\* unfragmented packet followed by its own payload.
C22_UnfragmentedFrameEffect ==
    [][UnfragmentedThenLast]_vars

\* An unfragmented packet was returned while a buffer of its timestamp held
\* bytes, and the buffer still holds them
C22_Witness ==
    /\ UnfragmentedOnOpen(call)
    /\ call.was.data # << >>
    /\ call.res = 0
    /\ rtp_av1_ctx.buf
    /\ rtp_av1_ctx.data = call.was.data

\* C23: a packet of the packetizer handed to av1_handle_packet is decoded with
\* first_packet = 1 exactly when the packetizer set N (mask 0x08) in its
\* aggregation header.
C23_NBitInteroperability ==
    (call.seq >= 1 /\ call.len >= 2) =>
        (call.first_packet = 1 <=> BitAnd(call.buf[1], AV1_RTP_FLAG_N) # 0)

\* C24: over all the streams of the process at most one packet carries N, and
\* a stream on which no call consumed the latch never sent a packet with N,
\* its first packet included.
C24_ProcessWideLatch ==
    /\ StreamsWithN(streams, NumStreams) <= 1
    /\ \A i \in 1..NumStreams :
           ~streams[i].consumed => (streams[i].withN = 0 /\ ~streams[i].firstN)

\* One stream consumed the latch and sent the packet with N; another stream
\* sent its first packet after that, without N
C24_Witness ==
    \E i, j \in 1..NumStreams :
        /\ i # j
        /\ streams[i].consumed /\ streams[i].withN = 1
        /\ streams[j].started /\ ~streams[j].consumed
        /\ streams[j].withN = 0 /\ ~streams[j].firstN

\* The bytes of OBUs among the bytes the aggregating packetizer sent, in order
AggSentObuBytes ==
    SelectSeq(Flatten([i \in 1..Len(agg.out) |-> Tail(agg.out[i].data)]),
              LAMBDA b : b \in Range(AuBytes(Carried(agg.au))))

\* C25: when ff_rtp_send_av1 of the aggregating packetizer has returned, the
\* outbound buffer is empty and the bytes of the OBUs of the access unit have
\* each been passed to ff_rtp_send_data once, in order.
C25_NoPayloadLeftUnsent ==
    agg.pc = "done" =>
        /\ agg.buf_ptr = 0
        /\ AggSentObuBytes = AuBytes(Carried(agg.au))

\* C26: every packet the aggregating packetizer passes to ff_rtp_send_data
\* holds at most max_payload_size bytes.
C26_PacketSizeBound ==
    \A i \in 1..Len(agg.out) : Len(agg.out[i].data) <= max_payload_size

\* What a call followed step by step has left to do: twice the bytes not yet
\* sent, and one more while obu_send is not under way
Remaining ==
    IF enc.pc = "split" THEN 2 * (enc.size - enc.len + Len(enc.buf))
    ELSE IF enc.pc = "while" THEN 2 * enc.size + 1
    ELSE 0

\* ceil(len / (mps - 1)), for mps >= 2
PacketsFor(len, mps) == (len + mps - 2) \div (mps - 1)

\* One step of a call on an access unit whose OBU lengths are positive, with
\* max_payload_size >= 2: what is left to do shrinks and stays non-negative,
\* and each obu_send call that has returned sent ceil(L / (mps - 1)) packets
CountedStep ==
    (max_payload_size >= 2 /\ au \in AccessUnits /\ enc.pc \in {"while", "split"}) =>
        /\ Remaining' < Remaining
        /\ Remaining' >= 0
        /\ enc'.pc \in {"while", "done"} =>
              /\ enc'.k <= Len(Carried(au))
              /\ \A k \in 1..enc'.k :
                    Len(PktsOf(k)') = PacketsFor(Len(Carried(au)[k].bytes), max_payload_size)

\* C27: for every OBU length L >= 1 and max_payload_size >= 2 obu_send ends
\* after passing exactly ceil(L / (max_payload_size - 1)) packets on, and
\* ff_rtp_send_av1 ends for every access unit of OBUs of positive length:
\* each step of the call brings it nearer to its return.
C27_TerminationAndCount ==
    [][CountedStep]_vars

\* A call has returned after splitting an OBU into three packets or more
C27_Witness ==
    /\ enc.pc = "done"
    /\ max_payload_size >= 2
    /\ au \in AccessUnits
    /\ \E k \in 1..enc.k :
          /\ Len(PktsOf(k)) >= 3
          /\ Len(PktsOf(k)) = PacketsFor(Len(Carried(au)[k].bytes), max_payload_size)

\* The bytes of seq are position tags in rising order, one packet after the
\* other, and start with the first payload byte of a packet
InArrivalOrder(seq) ==
    /\ seq # << >> => seq[1] % 16 = 1
    /\ \A i \in 1..(Len(seq) - 1) : seq[i] < seq[i + 1]

\* One call of av1_handle_packet, seen from the buffer.  kept says that the
\* buffer was open and outlives line 56.  A buffer is only ever opened by a
\* first fragment, and holds its payload; a buffer kept only grows by the
\* payload of the call; a packet is returned from the fragment path only on a
\* last fragment, and is the buffer followed by the payload of that fragment.
ReassemblyStep ==
    LET kept    == rtp_av1_ctx.buf /\ rtp_av1_ctx.timestamp = call'.timestamp
        payload == SubSeq(call'.buf, 2, call'.len)
        header  == call'.buf[1]
    IN  call'.seq = call.seq + 1 =>
          /\ (rtp_av1_ctx'.buf /\ ~kept) =>
                /\ call'.len >= 2
                /\ BitAnd(header, AV1_RTP_FLAG_Z) = 0 /\ BitAnd(header, AV1_RTP_FLAG_Y) # 0
                /\ rtp_av1_ctx'.data = payload
                /\ rtp_av1_ctx'.timestamp = call'.timestamp
          /\ (rtp_av1_ctx'.buf /\ kept) =>
                /\ rtp_av1_ctx'.timestamp = call'.timestamp
                /\ \/ rtp_av1_ctx'.data = rtp_av1_ctx.data
                   \/ rtp_av1_ctx'.data = rtp_av1_ctx.data \o payload
          /\ rtp_av1_ctx'.buf =>
                /\ InArrivalOrder(rtp_av1_ctx'.data)
                /\ \A i \in 1..Len(rtp_av1_ctx'.src) : rtp_av1_ctx'.src[i] = rtp_av1_ctx'.timestamp
          /\ (/\ call'.res = 0
              /\ BitAnd(header, AV1_RTP_FLAG_Z + AV1_RTP_FLAG_Y + OBU_ELE_NUM_MASK) # 0) =>
                /\ kept
                /\ BitAnd(header, AV1_RTP_FLAG_Z) # 0 /\ BitAnd(header, AV1_RTP_FLAG_Y) = 0
                /\ rtp_av1_ctx.data # << >>
                /\ call'.pkt = rtp_av1_ctx.data \o payload
                /\ InArrivalOrder(call'.pkt)
                /\ \A i \in 1..Len(rtp_av1_ctx.src) : rtp_av1_ctx.src[i] = call'.timestamp
                /\ ~rtp_av1_ctx'.buf

\* C28: a packet returned from the fragment path begins with the payload of a
\* first fragment (Z = 0, Y = 1), ends with the payload of a last fragment
\* (Z = 1, Y = 0), and holds payloads of packets of one timestamp only, in
\* the order of their arrival.
C28_ReassembledShape ==
    [][ReassemblyStep]_vars

\* A packet was returned that holds the payloads of three packets
C28_Witness ==
    /\ call.len >= 2
    /\ call.res = 0
    /\ call.was.buf
    /\ BitAnd(call.buf[1], AV1_RTP_FLAG_Z) # 0
    /\ call.pkt = call.was.data \o SubSeq(call.buf, 2, call.len)
    /\ Cardinality({ call.pkt[i] \div 16 : i \in 1..Len(call.pkt) }) >= 3

\* One call on the encoder: eos_flag does not go back, and once it was
\* EOS_RECEIVED eb_receive_packet returns AVERROR_EOF and does not ask the
\* encoder for a packet
EosLatchStep ==
    svt'.calls = svt.calls + 1 =>
        /\ svt'.eos_flag >= svt.eos_flag
        /\ (svt.seen /\ svt'.op = "receive") =>
              (svt'.ret = AVERROR_EOF /\ ~svt'.queried)

\* C29: once eb_receive_packet has set eos_flag to EOS_RECEIVED, every later
\* eb_receive_packet returns AVERROR_EOF without asking the encoder, whatever
\* eb_send_frame calls are made in between, and eos_flag only ever advances
\* from EOS_NOT_REACHED to EOS_SENT to EOS_RECEIVED.
C29_EosLatch ==
    [][EosLatchStep]_vars

\* C9: a packet of 2 bytes or more with Z = 0 and Y = 0 is returned at once as
\* a complete packet holding the packet's bytes after the header, whatever W
\* and N are and whether a buffer is open or not.
C9_Unfragmented ==
    (call.len >= 2 /\ ~CallZ /\ ~CallY) =>
        (call.res = 0 /\ call.pkt = SubSeq(call.buf, 2, call.len))

\* C10 as stated: a packet shorter than 2 bytes gets AVERROR_INVALIDDATA,
\* nothing is returned and the context is as it was before the call.
C10_MalformedDropped ==
    (call.len >= 0 /\ call.len < 2) =>
        /\ call.res = AVERROR_INVALIDDATA
        /\ call.pkt = << >>
        /\ rtp_av1_ctx = call.was

\* C10 as amended: a packet shorter than 2 bytes gets AVERROR_INVALIDDATA and
\* nothing is returned; the context is as it was before the call when no
\* buffer was open or the packet has the buffer's timestamp, and otherwise the
\* buffer was stale: it is closed, its bytes are gone.
C10_MalformedAmended ==
    (call.len >= 0 /\ call.len < 2) =>
        /\ call.res = AVERROR_INVALIDDATA
        /\ call.pkt = << >>
        /\ rtp_av1_ctx = IF call.was.buf /\ call.was.timestamp # call.timestamp
                         THEN ffio_free_dyn_buf(call.was)
                         ELSE call.was

\* A 1-byte packet arrived with the timestamp of an open buffer holding bytes
C10_Witness ==
    /\ call.len = 1
    /\ call.was.buf
    /\ call.was.data # << >>
    /\ call.was.timestamp = call.timestamp
    /\ call.res = AVERROR_INVALIDDATA
    /\ rtp_av1_ctx.buf

====
